---- MODULE Spec2Model ----
(***************************************************************************)
(* A model of the CSS minifier of src/css/css.go: the grammar consumer     *)
(* loop (minifyGrammar), the declaration/value minifier                    *)
(* (minifyDeclaration), the shorthand rules (minifyProperty), the          *)
(* colour/function evaluator (minifyFunction) and the token shortener      *)
(* (shortenToken).                                                         *)
(*                                                                         *)
(* Byte slices are TLA+ strings; s[i] of the Go code (0-based) is          *)
(* Ch(s, i+1).  A css.Token is a record [tt, data]; a Token of css.go is   *)
(* a record [tt, data, comps].  Every write to the sink is one element of  *)
(* a sequence of chunks, in the order the code writes them.                *)
(***************************************************************************)
EXTENDS Integers, Sequences, FiniteSets, TLC

VARIABLES
    isInline,         \* Minify: params["inline"] == "1", the input is a declaration list
    semicolonQueued,  \* minifyGrammar: the pending-separator flag
    out,              \* the sink: the chunks written so far, each [k, b, ev, gt]
    status,           \* "running" while minifyGrammar loops, "returned" after Minify returns
    ret,              \* what Minify returned: "nil" or an error value
    sinkErr,          \* the error a write to the sink returned, "nil" while none did
    failedWrites,     \* number of writes the sink refused
    blocks,           \* parser: the blocks currently open, innermost last
    nEvents,          \* parser: number of grammar events delivered
    lastEv,           \* the last grammar event handled, with the flag before it
    pc,               \* position of a single call: "start", ..., "done"
    inp,              \* the arguments of the call under study
    res               \* what the call produced

vars == <<isInline, semicolonQueued, out, status, ret, sinkErr, failedWrites, blocks, nEvents, lastEv,
          pc, inp, res>>

loopVars == <<isInline, semicolonQueued, out, status, ret, sinkErr, failedWrites, blocks, nEvents, lastEv>>

callVars == <<pc, inp, res>>

(***************************************************************************)
(* Bytes                                                                   *)
(***************************************************************************)
Ch(s, i) == SubSeq(s, i, i)

UpperAlpha == "ABCDEFGHIJKLMNOPQRSTUVWXYZ"

LowerAlpha == "abcdefghijklmnopqrstuvwxyz"

DigitChars == "0123456789"

CharsOf(s) == {Ch(s, i) : i \in 1..Len(s)}

IndexIn(s, c) == CHOOSE i \in 1..Len(s) : Ch(s, i) = c

LowerMap == [c \in CharsOf(UpperAlpha) |-> Ch(LowerAlpha, IndexIn(UpperAlpha, c))]

LowerCh(c) == IF c \in DOMAIN LowerMap THEN LowerMap[c] ELSE c

RECURSIVE ToLower(_)
ToLower(s) == IF s = "" THEN "" ELSE LowerCh(Ch(s, 1)) \o ToLower(SubSeq(s, 2, Len(s)))

HasPrefix(s, p) == Len(s) >= Len(p) /\ SubSeq(s, 1, Len(p)) = p

Drop(s, n) == SubSeq(s, n + 1, Len(s))

IsDigit(c) == c \in CharsOf(DigitChars)

IsLetter(c) == c \in CharsOf(UpperAlpha) \cup CharsOf(LowerAlpha)

RECURSIVE Join(_)
Join(chunks) == IF chunks = <<>> THEN "" ELSE Head(chunks) \o Join(Tail(chunks))

RECURSIVE AllDigits(_)
AllDigits(s) == s = "" \/ (IsDigit(Ch(s, 1)) /\ AllDigits(Drop(s, 1)))

RECURSIVE DigitsValue(_, _)
DigitsValue(s, acc) ==
    IF s = "" THEN acc
    ELSE DigitsValue(Drop(s, 1), acc * 10 + (IndexIn(DigitChars, Ch(s, 1)) - 1))

RECURSIVE DigitRun(_)
DigitRun(s) == IF s # "" /\ IsDigit(Ch(s, 1)) THEN 1 + DigitRun(Drop(s, 1)) ELSE 0

RECURSIVE Pow10(_)
Pow10(n) == IF n <= 0 THEN 1 ELSE 10 * Pow10(n - 1)

(***************************************************************************)
(* css.ToHash: the hash of a byte string is the string itself when the     *)
(* table knows it and the zero hash "" otherwise; the match is on the      *)
(* exact bytes.                                                            *)
(***************************************************************************)
HashNames ==
    {"font", "font-family", "font-weight", "margin", "padding", "border-width",
     "outline", "border", "border-bottom", "border-left", "border-right", "border-top",
     "background", "box-shadow", "-ms-filter", "filter", "flex", "color",
     "z-index", "counter-increment", "counter-reset", "orphans", "widows",
     "none", "normal", "bold", "important", "import",
     "xx-small", "x-small", "small", "medium", "large", "x-large", "xx-large",
     "smaller", "larger", "inherit", "initial", "unset",
     "rgb", "rgba", "hsl", "hsla", "local",
     "black", "white", "red", "yellow", "fuchsia", "navy", "gray", "tan"}

ToHash(b) == IF b \in HashNames THEN b ELSE ""

(***************************************************************************)
(* The colour tables and the zero-dimension allow-list (static tables of   *)
(* the package, kept outside css.go).                                      *)
(***************************************************************************)
ShortenColorHex ==
    [h \in {"#ff0000", "#000080", "#808080", "#d2b48c", "#008000", "#ffd700"} |->
        CASE h = "#ff0000" -> "red"
          [] h = "#000080" -> "navy"
          [] h = "#808080" -> "gray"
          [] h = "#d2b48c" -> "tan"
          [] h = "#008000" -> "green"
          [] h = "#ffd700" -> "gold"]

ShortenColorName ==
    [n \in {"black", "white", "yellow", "fuchsia"} |->
        CASE n = "black" -> "#000"
          [] n = "white" -> "#fff"
          [] n = "yellow" -> "#ff0"
          [] n = "fuchsia" -> "#f0f"]

optionalZeroDimension == {"px", "mm", "q", "cm", "in", "pt", "pc", "ch", "em", "ex", "rem",
                          "vh", "vw", "vmin", "vmax", "deg", "grad", "rad", "turn"}

(***************************************************************************)
(* Numbers: minify.Number / minify.Decimal (shortest rendering of a        *)
(* decimal literal, Decimals = -1 as in DefaultMinifier), parse.Number     *)
(* (length of the numeric prefix), strconv.ParseFloat and ParseInt with    *)
(* the error result ignored, as the callers do.                            *)
(***************************************************************************)
RECURSIVE StripLeadingZeros(_)
StripLeadingZeros(s) ==
    IF s # "" /\ Ch(s, 1) = "0" THEN StripLeadingZeros(Drop(s, 1)) ELSE s

RECURSIVE StripTrailingZeros(_)
StripTrailingZeros(s) ==
    IF s # "" /\ Ch(s, Len(s)) = "0" THEN StripTrailingZeros(SubSeq(s, 1, Len(s) - 1)) ELSE s

Sign(num) == IF num # "" /\ Ch(num, 1) \in {"+", "-"} THEN Ch(num, 1) ELSE ""

\* after: what follows the integer digits; nf: the digits behind its point
FractionParts(sgn, int, after, nf) ==
    IF after # "" /\ Ch(after, 1) = "."
    THEN [sgn |-> sgn, int |-> int, dot |-> TRUE, frac |-> SubSeq(after, 2, 1 + nf),
          rest |-> Drop(after, 1 + nf)]
    ELSE [sgn |-> sgn, int |-> int, dot |-> FALSE, frac |-> "", rest |-> after]

\* body: the literal behind its sign; ni: its leading digits
IntegerParts(sgn, body, ni) ==
    FractionParts(sgn, SubSeq(body, 1, ni), Drop(body, ni), DigitRun(Drop(body, ni + 1)))

SignedParts(sgn, num) == IntegerParts(sgn, Drop(num, Len(sgn)), DigitRun(Drop(num, Len(sgn))))

\* A literal split into sign, integer digits, fraction digits and what follows them.
NumParts(num) == SignedParts(Sign(num), num)

PlainNumber(i2, f2) == i2 \o (IF f2 # "" THEN "." \o f2 ELSE "")

Minus(sgn) == IF sgn = "-" THEN "-" ELSE ""

\* i2, f2: the integer digits without leading, the fraction digits without trailing zeros
DecimalFrom(num, sgn, rest, i2, f2) ==
    IF rest # "" THEN num
    ELSE IF i2 = "" /\ f2 = "" THEN "0"
    ELSE Minus(sgn) \o PlainNumber(i2, f2)

DecimalOf(num, p) ==
    DecimalFrom(num, p.sgn, p.rest, StripLeadingZeros(p.int), StripTrailingZeros(p.frac))

\* minify.Decimal: sign, leading and trailing zeros removed, no exponent.
Decimal(num) == DecimalOf(num, NumParts(num))

ExpInt(i2, mant) == mant \o "e" \o ToString(Len(i2) - Len(mant))

ExpFrac(f2) == StripLeadingZeros(f2) \o "e-" \o ToString(Len(f2))

\* The shortest of the plain form and the two exponent forms
Best(i2, f2, plain, mant) ==
    IF f2 = "" /\ Len(mant) < Len(i2) /\ Len(ExpInt(i2, mant)) < Len(plain) THEN ExpInt(i2, mant)
    ELSE IF i2 = "" /\ Len(ExpFrac(f2)) < Len(plain) THEN ExpFrac(f2)
    ELSE plain

NumberFrom(num, sgn, rest, i2, f2) ==
    IF rest # "" THEN num
    ELSE IF i2 = "" /\ f2 = "" THEN "0"
    ELSE Minus(sgn) \o Best(i2, f2, PlainNumber(i2, f2), StripTrailingZeros(i2))

NumberOf(num, p) ==
    NumberFrom(num, p.sgn, p.rest, StripLeadingZeros(p.int), StripTrailingZeros(p.frac))

\* minify.Number: as Decimal, with the exponent form when that is shorter.
Number(num) == NumberOf(num, NumParts(num))

\* sl: the length of the exponent's sign
ExponentDigitsLen(s, sl) == IF DigitRun(Drop(s, 1 + sl)) > 0 THEN 1 + sl + DigitRun(Drop(s, 1 + sl)) ELSE 0

\* The exponent part at the head of s: "e", an optional sign and digits; 0 if none.
ExponentLen(s) ==
    IF s # "" /\ Ch(s, 1) \in {"e", "E"}
    THEN ExponentDigitsLen(s, IF Len(s) > 1 /\ Ch(s, 2) \in {"+", "-"} THEN 1 ELSE 0)
    ELSE 0

MantissaLen(p) == Len(p.sgn) + Len(p.int) + (IF p.dot /\ p.frac # "" THEN 1 + Len(p.frac) ELSE 0)

NumberLenFrom(data, n) == n + ExponentLen(Drop(data, n))

NumberLenOf(data, p) == IF p.int = "" /\ p.frac = "" THEN 0 ELSE NumberLenFrom(data, MantissaLen(p))

\* parse.Number: the length of the number data starts with.
NumberLen(data) == NumberLenOf(data, NumParts(data))

\* Values of type float are held in millionths.
Unit == 1000000

FracDigits == 6

PadFrac(f) == SubSeq(f \o "000000", 1, FracDigits)

\* minify.Epsilon, 0.00001
Epsilon == 10

\* The float32 nearest to a decimal value. Rounding moves a value by far less than a
\* millionth; it decides a comparison of this code for one literal only: the float32
\* nearest to 1e-5 is 9.99999975e-6, below the float64 constant minify.Epsilon.
Float32(v) == IF v = Epsilon THEN v - 1 ELSE v

IsDecimalParts(p) == (p.int # "" \/ p.frac # "") /\ ExponentLen(p.rest) = Len(p.rest)

\* The bytes are a decimal literal: digits with an optional sign, point and exponent.
IsDecimal(s) == IsDecimalParts(NumParts(s))

ExponentDigits(es) == IF es # "" /\ Ch(es, 1) \in {"+", "-"} THEN Drop(es, 1) ELSE es

\* m: the mantissa in millionths; e: the exponent, negative when eneg
Scaled(m, eneg, e) == IF eneg THEN m \div Pow10(e) ELSE m * Pow10(e)

\* es: the exponent behind its "e"
DecimalValueOf(p, es) ==
    (IF p.sgn = "-" THEN -1 ELSE 1) *
        Scaled(DigitsValue(p.int, 0) * Unit + DigitsValue(PadFrac(p.frac), 0),
               es # "" /\ Ch(es, 1) = "-", DigitsValue(ExponentDigits(es), 0))

DecimalValueParts(p) == DecimalValueOf(p, IF p.rest # "" THEN Drop(p.rest, 1) ELSE "")

\* The value of a decimal literal, in millionths.
DecimalValue(s) == DecimalValueParts(NumParts(s))

ParseFloatParts(p) == IF IsDecimalParts(p) THEN Float32(DecimalValueParts(p)) ELSE 0

\* strconv.ParseFloat(s, 32), error ignored: 0 when s is not a decimal literal.
ParseFloat(s) == ParseFloatParts(NumParts(s))

ParseIntBody(sgn, body) ==
    IF body = "" \/ ~AllDigits(body) THEN 0
    ELSE IF sgn = "-" THEN 0 - DigitsValue(body, 0) ELSE DigitsValue(body, 0)

\* strconv.ParseInt(s, 10, 32), error ignored: 0 when s is not a run of digits.
ParseInt(s) == ParseIntBody(Sign(s), Drop(s, Len(Sign(s))))

(***************************************************************************)
(* removeStringNewlinex                                                    *)
(***************************************************************************)
IsContinuation(data, j) ==
    /\ j + 1 <= Len(data)
    /\ Ch(data, j) = "\\"
    /\ Ch(data, j + 1) \in {"\n", "\r"}

ContinuationLen(data, j) ==
    IF Ch(data, j + 1) = "\r" /\ j + 2 <= Len(data) /\ Ch(data, j + 2) = "\n" THEN 3 ELSE 2

\* The inner loop: the bytes from position j on, continuations left out.
RECURSIVE CopyWithoutContinuations(_, _)
CopyWithoutContinuations(data, j) ==
    IF j > Len(data) THEN ""
    ELSE IF IsContinuation(data, j)
         THEN CopyWithoutContinuations(data, j + ContinuationLen(data, j))
         ELSE Ch(data, j) \o CopyWithoutContinuations(data, j + 1)

\* The first continuation at positions 1 .. len-3 of the Go code, 0 when there is none
RECURSIVE FirstContinuation(_, _)
FirstContinuation(data, p) ==
    IF p > Len(data) - 2 THEN 0
    ELSE IF IsContinuation(data, p) THEN p
    ELSE FirstContinuation(data, p + 1)

RemoveFrom(data, i) ==
    IF i = 0 THEN data ELSE SubSeq(data, 1, i - 1) \o CopyWithoutContinuations(data, i)

removeStringNewlinex(data) == RemoveFrom(data, FirstContinuation(data, 2))

(***************************************************************************)
(* External predicates of the css package                                  *)
(***************************************************************************)
IsIdentStart(c) == IsLetter(c) \/ c = "_"

IsIdentChar(c) == IsLetter(c) \/ IsDigit(c) \/ c \in {"_", "-"}

RECURSIVE AllIdentChars(_)
AllIdentChars(s) == s = "" \/ (IsIdentChar(Ch(s, 1)) /\ AllIdentChars(Drop(s, 1)))

\* css.IsIdent: the bytes are exactly one identifier token.
IsIdent(s) ==
    /\ s # ""
    /\ \/ IsIdentStart(Ch(s, 1))
       \/ Ch(s, 1) = "-" /\ Len(s) > 1 /\ (IsIdentStart(Ch(s, 2)) \/ Ch(s, 2) = "-")
    /\ AllIdentChars(s)

RECURSIVE NoneOf(_, _)
NoneOf(s, bad) == s = "" \/ (Ch(s, 1) \notin bad /\ NoneOf(Drop(s, 1), bad))

\* css.IsURLUnquoted: the bytes may stand in url(...) without quotes.
IsURLUnquoted(s) == NoneOf(s, {"\"", "'", "(", ")", " ", "\t", "\n", "\r", "\\"})

\* minify.DataURI: re-encodes data: URIs, leaves every other URI as it is.
DataURI(uri) == IF HasPrefix(uri, "data:") THEN "data:" \o Drop(uri, 5) ELSE uri

RECURSIVE TrimLeft(_)
TrimLeft(s) == IF s # "" /\ Ch(s, 1) \in {" ", "\t", "\n", "\r"} THEN TrimLeft(Drop(s, 1)) ELSE s

RECURSIVE TrimRight(_)
TrimRight(s) ==
    IF s # "" /\ Ch(s, Len(s)) \in {" ", "\t", "\n", "\r"}
    THEN TrimRight(SubSeq(s, 1, Len(s) - 1)) ELSE s

\* parse.TrimWhitespace
TrimWhitespace(s) == TrimRight(TrimLeft(s))

(***************************************************************************)
(* shortenToken                                                            *)
(***************************************************************************)
IntegerProps == {"z-index", "counter-increment", "counter-reset", "orphans", "widows"}

\* Lines 739-745 with the test data[7] == data[8] left out
DropAlphaFirstNibble(d1) ==
    IF Len(d1) = 9
    THEN IF Ch(d1, 8) = "f" THEN SubSeq(d1, 1, 7)
         ELSE IF Ch(d1, 8) = "0" THEN "#0000"
         ELSE d1
    ELSE d1

\* Lines 739-745: the alpha of an eight-digit colour, ff dropped, 00 made #0000
DropAlpha(d1) ==
    IF Len(d1) = 9 /\ Ch(d1, 8) = Ch(d1, 9)
    THEN IF Ch(d1, 8) = "f" THEN SubSeq(d1, 1, 7)
         ELSE IF Ch(d1, 8) = "0" THEN "#0000"
         ELSE d1
    ELSE d1

\* Lines 746-760: colour name, doubled nibbles
ShortenHex(d2) ==
    IF d2 \in DOMAIN ShortenColorHex
    THEN [tt |-> "Ident", data |-> ShortenColorHex[d2]]
    ELSE IF Len(d2) = 7 /\ Ch(d2, 2) = Ch(d2, 3) /\ Ch(d2, 4) = Ch(d2, 5) /\ Ch(d2, 6) = Ch(d2, 7)
    THEN [tt |-> "Hash", data |-> "#" \o Ch(d2, 2) \o Ch(d2, 4) \o Ch(d2, 6)]
    ELSE IF Len(d2) = 9 /\ Ch(d2, 2) = Ch(d2, 3) /\ Ch(d2, 4) = Ch(d2, 5)
                        /\ Ch(d2, 6) = Ch(d2, 7) /\ Ch(d2, 8) = Ch(d2, 9)
    THEN [tt |-> "Hash", data |-> "#" \o Ch(d2, 2) \o Ch(d2, 4) \o Ch(d2, 6) \o Ch(d2, 8)]
    ELSE [tt |-> "Hash", data |-> d2]

\* The HashToken branch: lower case, redundant alpha, colour name, doubled nibbles.
ShortenHash(data0) == ShortenHex(DropAlpha(ToLower(data0)))

\* Lines 713-718: the length of the number in front of the unit
NumericLen(tt, data) ==
    IF tt = "Percentage" THEN Len(data) - 1
    ELSE IF tt = "Dimension" THEN NumberLen(data)
    ELSE Len(data)

\* Lines 726-730: the unit is kept unless the number is 0 and the unit may go
NumericToken(prop, tt, num, dim) ==
    IF tt = "Dimension" /\ (num # "0" \/ dim \notin optionalZeroDimension \/ prop = "flex")
    THEN [tt |-> tt, data |-> num \o dim]
    ELSE IF tt = "Percentage" THEN [tt |-> tt, data |-> num \o "%"]
    ELSE [tt |-> tt, data |-> num]

ShortenNumericAt(prop, tt, data, keepCSS2, n) ==
    NumericToken(prop, tt,
                 IF ~keepCSS2 THEN Number(SubSeq(data, 1, n)) ELSE Decimal(SubSeq(data, 1, n)),
                 ToLower(Drop(data, n)))

\* The number, percentage and dimension branch.
ShortenNumeric(prop, tt, data, keepCSS2) ==
    ShortenNumericAt(prop, tt, data, keepCSS2, NumericLen(tt, data))

URLWrite(uri, delim) ==
    IF IsURLUnquoted(uri) THEN "url(" \o uri \o ")"
    ELSE "url(" \o delim \o uri \o delim \o ")"

Unquote(u) == SubSeq(u, 2, Len(u) - 1)

\* Lines 766-778, uri0 the trimmed bytes between the parentheses
URLFrom(uri0) ==
    IF Ch(uri0, 1) \in {"'", "\""}
    THEN URLWrite(DataURI(Unquote(removeStringNewlinex(uri0))), Ch(uri0, 1))
    ELSE URLWrite(DataURI(uri0), "\"")

ShortenURLLower(data, low) ==
    IF Len(data) > 10 THEN URLFrom(TrimWhitespace(SubSeq(low, 5, Len(low) - 1))) ELSE low

\* The URLToken branch.
ShortenURL(data) == ShortenURLLower(data, ToLower(SubSeq(data, 1, 3)) \o Drop(data, 3))

shortenToken(prop, tt, data, keepCSS2) ==
    IF tt \in {"Number", "Percentage", "Dimension"}
    THEN IF tt = "Number" /\ prop \in IntegerProps
         THEN [tt |-> tt, data |-> data]
         ELSE ShortenNumeric(prop, tt, data, keepCSS2)
    ELSE IF tt = "Ident"
    THEN IF ToHash(data) \in DOMAIN ShortenColorName
         THEN [tt |-> "Hash", data |-> ShortenColorName[ToHash(data)]]
         ELSE [tt |-> tt, data |-> data]
    ELSE IF tt = "Hash" THEN ShortenHash(data)
    ELSE IF tt = "String" THEN [tt |-> tt, data |-> removeStringNewlinex(data)]
    ELSE IF tt = "URL" THEN [tt |-> tt, data |-> ShortenURL(data)]
    ELSE [tt |-> tt, data |-> data]

(***************************************************************************)
(* Token of css.go and Token.Equal                                         *)
(***************************************************************************)
Tok(tt, data) == [tt |-> tt, data |-> data]

Value(tt, data, comps) == [tt |-> tt, data |-> data, comps |-> comps]

Equal(a, b) ==
    /\ a.tt = b.tt
    /\ a.data = b.data
    /\ Len(a.comps) = Len(b.comps)
    /\ \A i \in 1..Len(a.comps) :
          a.comps[i].tt = b.comps[i].tt /\ a.comps[i].data = b.comps[i].data

\* values[i] of the Go code, i counted from 0.
At(values, i) == values[i + 1]

\* append(values[:i], values[i+1:]...)
RemoveAt(values, i) == SubSeq(values, 1, i) \o SubSeq(values, i + 2, Len(values))

IsSlash(v) == v.tt = "Delim" /\ Ch(v.data, 1) = "/"

IsZero(v) == v.data = "0"

(***************************************************************************)
(* minifyProperty: the shorthand rules, on the shortened value list        *)
(***************************************************************************)
RECURSIVE Split(_, _)
\* bytes.Split(s, sep) for a one-byte separator
Split(s, sep) ==
    LET hits == {i \in 1..Len(s) : Ch(s, i) = sep}
    IN IF hits = {} THEN <<s>>
       ELSE LET i == CHOOSE h \in hits : \A g \in hits : h <= g
            IN <<SubSeq(s, 1, i - 1)>> \o Split(Drop(s, i), sep)

AllIdents(parts) == \A k \in 1..Len(parts) : parts[k] # "" /\ IsIdent(parts[k])

\* s: the lower-cased bytes between the quotes
FontFamilyUnquoted(v, low, s) == [v EXCEPT !.data = IF AllIdents(Split(s, " ")) THEN s ELSE low]

FontFamilyLowered(v, low) == FontFamilyUnquoted(v, low, SubSeq(low, 2, Len(low) - 1))

\* case css.Font_Family, one value: the string is lower-cased where it lies and
\* replaced by its content when every space-separated part is an identifier.
FontFamilyValue(v) ==
    IF v.tt = "String" /\ Len(v.data) > 2 THEN FontFamilyLowered(v, ToLower(v.data)) ELSE v

FontFamily(values) == [k \in 1..Len(values) |-> FontFamilyValue(values[k])]

FontSizeKeywords == {"xx-small", "x-small", "small", "medium", "large", "x-large", "xx-large",
                     "smaller", "larger", "inherit", "initial", "unset"}

\* The backward loop that finds where the font-family starts.
RECURSIVE FontScanBack(_, _)
FontScanBack(values, i) ==
    IF i > 0
    THEN IF IsSlash(At(values, i - 1)) THEN i
         ELSE IF At(values, i).tt \notin {"Ident", "String"} THEN i
         ELSE IF At(values, i).tt = "Ident" /\ ToHash(At(values, i).data) \in FontSizeKeywords THEN i
         ELSE FontScanBack(values, i - 1)
    ELSE i

\* The backward loop over the tokens before the font-size.
RECURSIVE FontWeightScan(_, _)
FontWeightScan(values, i) ==
    IF i > -1
    THEN LET v == At(values, i)
         IN IF v.tt = "Ident"
            THEN IF ToHash(v.data) = "normal" THEN FontWeightScan(RemoveAt(values, i), i - 1)
                 ELSE IF ToHash(v.data) = "bold"
                 THEN FontWeightScan([values EXCEPT ![i + 1] = [v EXCEPT !.tt = "Number", !.data = "700"]], i - 1)
                 ELSE FontWeightScan(values, i - 1)
            ELSE IF v.tt = "Number" /\ v.data = "400" THEN FontWeightScan(RemoveAt(values, i), i - 1)
            ELSE FontWeightScan(values, i - 1)
    ELSE values

\* Lines 399-404: the index of the first comma from values[2] on, -1 when there is none
RECURSIVE FirstComma(_, _)
FirstComma(values, j) ==
    IF j >= Len(values) THEN -1
    ELSE IF At(values, j).tt = "Comma" THEN j
    ELSE FirstComma(values, j + 1)

FontFamilyEnd(values, comma) == IF comma = -1 THEN Len(values) ELSE comma - 1

\* Lines 431-446: the line-height, then the tokens before the font-size
FontLineHeight(v1, i, hasLineHeight) ==
    FontWeightScan(IF hasLineHeight /\ At(v1, i).tt = "Ident" /\ At(v1, i).data = "normal"
                   THEN SubSeq(v1, 1, i - 1) \o SubSeq(v1, i + 2, Len(v1))
                   ELSE v1,
                   (IF hasLineHeight THEN i - 2 ELSE i) - 1)

FontSized(v1, i) == IF i > 0 THEN FontLineHeight(v1, i, i > 1 /\ IsSlash(At(v1, i - 1))) ELSE v1

\* Line 424: the font-family minified in place, from values[i+1] on
FontAt(values, i) ==
    FontSized(SubSeq(values, 1, i + 1) \o FontFamily(SubSeq(values, i + 2, Len(values))), i)

\* case css.Font
Font(values) ==
    IF Len(values) > 1
    THEN FontAt(values, FontScanBack(values, FontFamilyEnd(values, FirstComma(values, 2)) - 1))
    ELSE values

\* case css.Font_Weight
FontWeight(values) ==
    IF Len(values) = 1 /\ values[1].tt = "Ident"
    THEN IF ToHash(values[1].data) = "normal"
         THEN <<[values[1] EXCEPT !.tt = "Number", !.data = "400"]>>
         ELSE IF ToHash(values[1].data) = "bold"
         THEN <<[values[1] EXCEPT !.tt = "Number", !.data = "700"]>>
         ELSE values
    ELSE values

\* QuadCollapse, the last test of four values comparing values[0] with values[2]
QuadCollapseWrongPair(values) ==
    LET n == Len(values)
        v(i) == At(values, i)
    IN IF n = 2
       THEN IF Equal(v(0), v(1)) THEN SubSeq(values, 1, 1) ELSE values
       ELSE IF n = 3
       THEN IF Equal(v(0), v(1)) /\ Equal(v(0), v(2)) THEN SubSeq(values, 1, 1)
            ELSE IF Equal(v(0), v(2)) THEN SubSeq(values, 1, 2)
            ELSE values
       ELSE IF n = 4
       THEN IF Equal(v(0), v(1)) /\ Equal(v(0), v(2)) /\ Equal(v(0), v(3)) THEN SubSeq(values, 1, 1)
            ELSE IF Equal(v(0), v(2)) /\ Equal(v(1), v(3)) THEN SubSeq(values, 1, 2)
            ELSE IF Equal(v(0), v(2)) THEN SubSeq(values, 1, 3)
            ELSE values
       ELSE values

\* case css.Margin, css.Padding, css.Border_Width
QuadCollapse(values) ==
    LET n == Len(values)
        v(i) == At(values, i)
    IN IF n = 2
       THEN IF Equal(v(0), v(1)) THEN SubSeq(values, 1, 1) ELSE values
       ELSE IF n = 3
       THEN IF Equal(v(0), v(1)) /\ Equal(v(0), v(2)) THEN SubSeq(values, 1, 1)
            ELSE IF Equal(v(0), v(2)) THEN SubSeq(values, 1, 2)
            ELSE values
       ELSE IF n = 4
       THEN IF Equal(v(0), v(1)) /\ Equal(v(0), v(2)) /\ Equal(v(0), v(3)) THEN SubSeq(values, 1, 1)
            ELSE IF Equal(v(0), v(2)) /\ Equal(v(1), v(3)) THEN SubSeq(values, 1, 2)
            ELSE IF Equal(v(1), v(3)) THEN SubSeq(values, 1, 3)
            ELSE values
       ELSE values

\* case css.Outline, css.Border, ...: the loop, as [values, none, iZero]
RECURSIVE BorderLoop(_, _, _, _)
BorderLoop(values, i, none, iZero) ==
    IF i >= Len(values) THEN [values |-> values, none |-> none, iZero |-> iZero]
    ELSE LET value == At(values, i)
         IN IF Len(value.data) = 1 /\ Ch(value.data, 1) = "0"
            THEN BorderLoop(values, i + 1, none, i)
            ELSE IF ToHash(value.data) = "none"
            THEN BorderLoop([values EXCEPT ![i + 1] = [value EXCEPT !.tt = "Number", !.data = "0"]],
                            i + 1, TRUE, iZero)
            ELSE BorderLoop(values, i + 1, none, iZero)

\* The loop keeping the first literal zero it meets instead of the last
RECURSIVE BorderLoopFirstZero(_, _, _, _)
BorderLoopFirstZero(values, i, none, iZero) ==
    IF i >= Len(values) THEN [values |-> values, none |-> none, iZero |-> iZero]
    ELSE LET value == At(values, i)
         IN IF Len(value.data) = 1 /\ Ch(value.data, 1) = "0"
            THEN BorderLoopFirstZero(values, i + 1, none, IF iZero = -1 THEN i ELSE iZero)
            ELSE IF ToHash(value.data) = "none"
            THEN BorderLoopFirstZero([values EXCEPT ![i + 1] = [value EXCEPT !.tt = "Number", !.data = "0"]],
                                     i + 1, TRUE, iZero)
            ELSE BorderLoopFirstZero(values, i + 1, none, iZero)

\* Border, dropping the first literal zero
BorderDropFirstZero(values) ==
    LET r == BorderLoopFirstZero(values, 0, FALSE, -1)
    IN IF r.none /\ r.iZero # -1 THEN RemoveAt(r.values, r.iZero) ELSE r.values

Border(values) ==
    LET r == BorderLoop(values, 0, FALSE, -1)
    IN IF r.none /\ r.iZero # -1 THEN RemoveAt(r.values, r.iZero) ELSE r.values

\* case css.Background
Background(values) ==
    IF Len(values) = 1 /\ (ToHash(values[1].data) = "none" \/ values[1].data = "#0000")
    THEN <<[values[1] EXCEPT !.data = "0 0"]>>
    ELSE values

\* case css.Box_Shadow
BoxShadow(values) ==
    IF Len(values) = 4 /\ \A k \in 1..4 : Len(values[k].data) = 1 /\ Ch(values[k].data, 1) = "0"
    THEN SubSeq(values, 1, 2)
    ELSE values

AlphaProgid == "progid:DXImageTransform.Microsoft.Alpha(Opacity="

\* case css.Ms_Filter
MsFilter(values) ==
    LET d == values[1].data
    IN IF values[1].tt = "String" /\ HasPrefix(SubSeq(d, 2, Len(d) - 1), AlphaProgid)
       THEN [values EXCEPT ![1].data = Ch(d, 1) \o "alpha(opacity=" \o Drop(d, 1 + Len(AlphaProgid))]
       ELSE values

minifyProperty(prop, values) ==
    CASE prop = "font" -> Font(values)
      [] prop = "font-family" -> FontFamily(values)
      [] prop = "font-weight" -> FontWeight(values)
      [] prop \in {"margin", "padding", "border-width"} -> QuadCollapse(values)
      [] prop \in {"outline", "border", "border-bottom", "border-left", "border-right", "border-top"} ->
            Border(values)
      [] prop = "background" -> Background(values)
      [] prop = "box-shadow" -> BoxShadow(values)
      [] prop = "-ms-filter" -> MsFilter(values)
      [] OTHER -> values

(***************************************************************************)
(* minifyFunction: what it writes, as the chunks in the order written      *)
(***************************************************************************)
HexDigits == "0123456789abcdef"

HexByte(b) == Ch(HexDigits, (b \div 16) + 1) \o Ch(HexDigits, (b % 16) + 1)

Clamp(d, lo, hi) == IF d < lo THEN lo ELSE IF d > hi THEN hi ELSE d

\* The data of every token, in order: for _, value := range values { Write(value.Data) }
Datas(values) == [k \in 1..Len(values) |-> values[k].data]

IsNumeric(v) == v.tt \in {"Number", "Percentage"}

\* i counts the arguments from 0, as the loop over values[1:n-1] does.
IsSeparator(i, v) ==
    \/ v.tt = "Comma"
    \/ i # 5 /\ v.tt = "Whitespace"
    \/ i = 5 /\ v.tt = "Delim" /\ Ch(v.data, 1) = "/"

ArgsValid(values) ==
    \A i \in 0..(Len(values) - 3) :
        ~ \/ i % 2 = 0 /\ ~IsNumeric(values[i + 2])
          \/ i % 2 = 1 /\ ~IsSeparator(i, values[i + 2])

\* vals: the positions (in values, from 1) of the arguments the loop collects.
RECURSIVE ValsFrom(_, _)
ValsFrom(values, i) ==
    IF i > Len(values) - 3 THEN <<>>
    ELSE IF i % 2 = 0 /\ IsNumeric(values[i + 2])
         THEN <<i + 2>> \o ValsFrom(values, i + 1)
         ELSE ValsFrom(values, i + 1)

InSeq(x, sq) == \E k \in 1..Len(sq) : sq[k] = x

\* d: the percentage, clamped to 0..100
PercentByte(d) == ((d \div 100) * 255 + Unit \div 2) \div Unit

\* One colour channel of rgb()/rgba(), vals[j] for j < 3.
Channel(val) ==
    IF val.tt = "Number" THEN Clamp(ParseInt(val.data), 0, 255)
    ELSE PercentByte(Clamp(ParseFloat(SubSeq(val.data, 1, Len(val.data) - 1)), 0, 100 * Unit))

Doubled3(val) == Ch(val, 2) = Ch(val, 3) /\ Ch(val, 4) = Ch(val, 5) /\ Ch(val, 6) = Ch(val, 7)

\* val: the nine bytes # rr gg bb aa
ShortestHex(val, a) ==
    IF a = 255
    THEN IF SubSeq(val, 1, 7) \in DOMAIN ShortenColorHex THEN ShortenColorHex[SubSeq(val, 1, 7)]
         ELSE IF Doubled3(val) THEN "#" \o Ch(val, 2) \o Ch(val, 4) \o Ch(val, 6)
         ELSE SubSeq(val, 1, 7)
    ELSE IF Doubled3(val) /\ Ch(val, 8) = Ch(val, 9)
         THEN "#" \o Ch(val, 2) \o Ch(val, 4) \o Ch(val, 6) \o Ch(val, 8)
         ELSE val

\* The literal for the four bytes: the table's name, the short or the long hex.
ColorLiteral(r, g, b, a) == ShortestHex("#" \o HexByte(r) \o HexByte(g) \o HexByte(b) \o HexByte(a), a)

\* The table's name is written and the function returns, whatever KeepCSS2 is.
IsNamed(r, g, b, a) == a = 255 /\ ("#" \o HexByte(r) \o HexByte(g) \o HexByte(b)) \in DOMAIN ShortenColorHex

WrapHue(h0) == IF h0 < 0 THEN h0 + 360000 ELSE IF h0 > 360000 THEN h0 - 360000 ELSE h0

Hue2RGBWrapped(m1, m2, h) ==
    IF h < 60000 THEN m1 + ((m2 - m1) * h) \div 60000
    ELSE IF h < 180000 THEN m2
    ELSE IF h < 240000 THEN m1 + ((m2 - m1) * (240000 - h)) \div 60000
    ELSE m1

\* css.HSL2RGB in thousandths: hue in thousandths of a degree, s and l in 0..1000.
Hue2RGB(m1, m2, h0) == Hue2RGBWrapped(m1, m2, WrapHue(h0))

HSL2RGBFrom(h, l, m2) ==
    <<Hue2RGB(l * 2 - m2, m2, h + 120000), Hue2RGB(l * 2 - m2, m2, h), Hue2RGB(l * 2 - m2, m2, h - 120000)>>

HSL2RGB(h, s, l) ==
    HSL2RGBFrom(h, l, IF l > 500 THEN l + s - (l * s) \div 1000 ELSE (l * (s + 1000)) \div 1000)

ToBytes(rgb) == [k \in 1..3 |-> (rgb[k] * 255 + 500) \div 1000]

\* for h > 360.0 { h -= 360.0 }
ReduceHue(h0) == IF h0 > 360 * Unit THEN ((h0 - 1) % (360 * Unit)) + 1 ELSE h0

\* The hsl()/hsla() arithmetic of lines 636-654: the three colour bytes.
HSLBytes(vals) ==
    ToBytes(HSL2RGB(ReduceHue(ParseFloat(vals[1].data)) \div 1000,
                    Clamp(ParseFloat(SubSeq(vals[2].data, 1, Len(vals[2].data) - 1)), 0, 100 * Unit) \div 100000,
                    Clamp(ParseFloat(SubSeq(vals[3].data, 1, Len(vals[3].data) - 1)), 0, 100 * Unit) \div 100000))

\* Lines 553-555: the numeric arguments shortened where they lie
ShortenArgs(values, idx, keepCSS2) ==
    [k \in 1..Len(values) |->
        IF InSeq(k, idx) THEN shortenToken("", values[k].tt, values[k].data, keepCSS2) ELSE values[k]]

\* Lines 574-576 and 631-633: the function's name without its a
Renamed(values, fun, from, to, keepCSS2) ==
    IF ~keepCSS2 /\ fun = from THEN [values EXCEPT ![1].data = to] ELSE values

\* Lines 598-627 and 655-685, c the three colour bytes
ColorWrite(values, c, a, keepCSS2) ==
    IF IsNamed(c[1], c[2], c[3], a) \/ ~keepCSS2 \/ a = 255
    THEN <<ColorLiteral(c[1], c[2], c[3], a)>>
    ELSE values

\* Lines 573-687, a the alpha byte
ColorBytes(fun, values, vals, keepCSS2, a) ==
    IF fun \in {"rgb", "rgba"} /\ Len(vals) \in {3, 4}
    THEN ColorWrite(Datas(Renamed(values, fun, "rgba", "rgb(", keepCSS2)),
                    [k \in 1..3 |-> Channel(vals[k])], a, keepCSS2)
    ELSE IF fun \in {"hsl", "hsla"} /\ Len(vals) \in {3, 4}
    THEN IF vals[1].tt = "Number" /\ vals[2].tt = "Percentage" /\ vals[3].tt = "Percentage"
         THEN ColorWrite(<<>>, HSLBytes(vals), a, keepCSS2)
         ELSE Datas(Renamed(values, fun, "hsla", "hsl(", keepCSS2))
    ELSE Datas(values)

\* Lines 559-570, d the parsed values[7]
ColorAlpha(fun, values, vals, keepCSS2, d) ==
    IF d < Epsilon THEN <<"#0000">>
    ELSE ColorBytes(fun, IF d >= Unit THEN SubSeq(values, 1, 7) ELSE values, vals, keepCSS2,
                    IF d >= Unit THEN 255 ELSE (d * 255 + Unit \div 2) \div Unit)

\* Lines 557-571
ColorArgs(fun, values, vals, keepCSS2) ==
    IF Len(vals) = 4
    THEN ColorAlpha(fun, values, vals, keepCSS2, ParseFloat(values[8].data))
    ELSE ColorBytes(fun, values, vals, keepCSS2, 255)

ColorShortened(fun, values, idx, keepCSS2) ==
    ColorArgs(fun, values, [k \in 1..Len(idx) |-> values[idx[k]]], keepCSS2)

ColorIndexed(fun, values, idx, keepCSS2) ==
    ColorShortened(fun, ShortenArgs(values, idx, keepCSS2), idx, keepCSS2)

\* The rgb/rgba/hsl/hsla branch once the arguments are valid.
ColorFunction(fun, values, keepCSS2) == ColorIndexed(fun, values, ValsFrom(values, 0), keepCSS2)

LocalStripped(values, stripped) ==
    Datas([values EXCEPT ![2].data = IF IsURLUnquoted(Unquote(stripped)) THEN Unquote(stripped)
                                     ELSE stripped])

\* The local() branch.
LocalFunction(values) ==
    IF Ch(values[2].data, 1) \in {"'", "\""}
    THEN LocalStripped(values, removeStringNewlinex(values[2].data))
    ELSE Datas(values)

minifyFunction(values, keepCSS2) ==
    LET n == Len(values)
        fun == ToHash(SubSeq(values[1].data, 1, Len(values[1].data) - 1))
    IN IF n > 2 /\ fun \in {"rgb", "rgba", "hsl", "hsla"}
       THEN IF ArgsValid(values) THEN ColorFunction(fun, values, keepCSS2) ELSE Datas(values)
       ELSE IF n > 2 /\ fun = "local" /\ n = 3 THEN LocalFunction(values)
       ELSE Datas(values)

(***************************************************************************)
(* minifyDeclaration                                                       *)
(***************************************************************************)
BlockTokens == {"LeftParenthesis", "LeftBrace", "LeftBracket",
                "RightParenthesis", "RightBrace", "RightBracket"}

\* HasImportant with the length test len(components) > 1
HasImportantOfTwo(components) ==
    LET n == Len(components)
    IN /\ n > 1
       /\ components[n - 1].tt = "Delim"
       /\ Ch(components[n - 1].data, 1) = "!"
       /\ ToHash(components[n].data) = "important"

\* Lines 269-274: the components end with the delimiter ! and the identifier important.
HasImportant(components) ==
    LET n == Len(components)
    IN /\ n > 2
       /\ components[n - 1].tt = "Delim"
       /\ Ch(components[n - 1].data, 1) = "!"
       /\ ToHash(components[n].data) = "important"

IsValueSeparator(comp) ==
    \/ comp.tt = "Whitespace"
    \/ comp.tt = "Comma"
    \/ comp.tt = "Delim" /\ Ch(comp.data, 1) = "/"

\* Lines 299-311: the position (from 1) of the last component the function token at
\* position i absorbs; j is the position under inspection.
RECURSIVE FunctionEnd(_, _, _)
FunctionEnd(components, j, level) ==
    IF j > Len(components) THEN Len(components)
    ELSE IF components[j].tt = "LeftParenthesis" THEN FunctionEnd(components, j + 1, level + 1)
    ELSE IF components[j].tt = "RightParenthesis"
         THEN IF level = 0 THEN j ELSE FunctionEnd(components, j + 1, level - 1)
    ELSE FunctionEnd(components, j + 1, level)

\* Lines 277-318: the segmentation loop from position i (from 1) on.
RECURSIVE Segment(_, _, _, _)
Segment(components, i, prevSep, values) ==
    IF i > Len(components) THEN [simple |-> TRUE, values |-> values]
    ELSE LET comp == components[i]
         IN IF comp.tt \in BlockTokens THEN [simple |-> FALSE, values |-> values]
            ELSE IF ~prevSep /\ ~IsValueSeparator(comp) THEN [simple |-> FALSE, values |-> values]
            ELSE IF IsValueSeparator(comp)
            THEN Segment(components, i + 1, TRUE,
                         IF comp.tt # "Whitespace"
                         THEN Append(values, Value(comp.tt, comp.data, <<>>))
                         ELSE values)
            ELSE IF comp.tt = "Function"
            THEN LET j == FunctionEnd(components, i + 1, 0)
                 IN Segment(components, j + 1, FALSE,
                            Append(values, Value(comp.tt, comp.data, SubSeq(components, i, j))))
            ELSE Segment(components, i + 1, FALSE, Append(values, Value(comp.tt, comp.data, <<>>)))

\* Lines 325-331: the conditions of the filter pattern that precede the call of
\* parse.ToLower on components[7].
FilterPrefix(c) ==
    /\ c[1].data = "progid"
    /\ c[2].tt = "Colon"
    /\ c[3].data = "DXImageTransform"
    /\ Ch(c[4].data, 1) = "."
    /\ c[5].data = "Microsoft"
    /\ Ch(c[6].data, 1) = "."
    /\ c[7].data = "Alpha("

\* Lines 332-334: the rest of the pattern.
FilterRest(c) ==
    /\ ToLower(c[8].data) = "opacity"
    /\ Ch(c[9].data, 1) = "="
    /\ Ch(c[11].data, 1) = ")"

\* Lines 323-344: the components written on the path that is not simple.  ToLower
\* works on the bytes of components[7] where they lie, as soon as it is called.
ComplexComponents(prop, components) ==
    IF prop = "filter" /\ Len(components) = 11 /\ FilterPrefix(components)
    THEN LET c == [components EXCEPT ![8].data = ToLower(components[8].data)]
         IN IF FilterRest(components)
            THEN [SubSeq(c, 7, 11) EXCEPT ![1].data = "alpha("]
            ELSE c
    ELSE components

\* t: what shortenToken returned for the value
Shortened(value, t) == [value EXCEPT !.tt = t.tt, !.data = t.data]

\* Lines 353-355
ShortenValues(prop, values, keepCSS2) ==
    [k \in 1..Len(values) |->
        Shortened(values[k], shortenToken(prop, values[k].tt, values[k].data, keepCSS2))]

IsSep(value) == value.tt = "Comma" \/ IsSlash(value)

\* Lines 361-383: one value, with the space that separates it from the value before
SerializeValue(value, prevSep, keepCSS2) ==
    (IF ~prevSep /\ ~IsSep(value) THEN <<" ">> ELSE <<>>)
        \o (IF value.tt = "Function" THEN minifyFunction(value.comps, keepCSS2) ELSE <<value.data>>)

\* Lines 360-384: the chunks written for the values from position k on.
RECURSIVE Serialize(_, _, _, _)
Serialize(values, k, prevSep, keepCSS2) ==
    IF k > Len(values) THEN <<>>
    ELSE SerializeValue(values[k], prevSep, keepCSS2)
             \o Serialize(values, k + 1, IsSep(values[k]), keepCSS2)

\* Lines 345-349 and 386-390
ImportantChunk(important) == IF important THEN <<"!important">> ELSE <<>>

\* Lines 323-351: what the path that is not simple writes.
ComplexChunks(prop, components, important) ==
    Datas(ComplexComponents(prop, components)) \o ImportantChunk(important)

\* Lines 353-391: what the simple path writes for the final value list.
SimpleChunks(values, important, keepCSS2) ==
    Serialize(values, 1, TRUE, keepCSS2) \o ImportantChunk(important)

\* Lines 356-358
FinalValues(prop, shortened) == IF Len(shortened) > 0 THEN minifyProperty(prop, shortened) ELSE shortened

SimpleResult(segmented, final, important, keepCSS2) ==
    [important |-> important, simple |-> TRUE, segmented |-> segmented, values |-> final,
     chunks |-> SimpleChunks(final, important, keepCSS2)]

\* seg: what the segmentation loop left
Segmented(prop, components, important, keepCSS2, seg) ==
    IF ~seg.simple
    THEN [important |-> important, simple |-> FALSE, segmented |-> seg.values, values |-> seg.values,
          chunks |-> ComplexChunks(prop, components, important)]
    ELSE SimpleResult(seg.values, FinalValues(prop, ShortenValues(prop, seg.values, keepCSS2)),
                      important, keepCSS2)

\* Lines 276-391: the call once !important is stripped from the components.
DeclarationBody(prop, components, important, keepCSS2) ==
    Segmented(prop, components, important, keepCSS2, Segment(components, 1, TRUE, <<>>))

\* The whole call: the flags and lists it computes and the chunks it writes.
minifyDeclaration(property, components, keepCSS2) ==
    IF Len(components) = 0
    THEN [important |-> FALSE, simple |-> TRUE, segmented |-> <<>>, values |-> <<>>, chunks |-> <<>>]
    ELSE DeclarationBody(ToHash(property),
                         IF HasImportant(components) THEN SubSeq(components, 1, Len(components) - 2)
                         ELSE components,
                         HasImportant(components), keepCSS2)

(***************************************************************************)
(* The tokenizer behind c.p.Values(): the component tokens of a            *)
(* declaration value given as bytes (CSS Syntax Level 3, the part of it    *)
(* the values of this model use).                                          *)
(***************************************************************************)
IsSpace(c) == c \in {" ", "\t", "\n", "\r"}

RECURSIVE RunLen(_, _)
\* The length of the longest prefix of s whose bytes are all in class
RunLen(s, class) == IF s # "" /\ Ch(s, 1) \in class THEN 1 + RunLen(Drop(s, 1), class) ELSE 0

SpaceChars == {" ", "\t", "\n", "\r"}

IdentChars == CharsOf(UpperAlpha) \cup CharsOf(LowerAlpha) \cup CharsOf(DigitChars) \cup {"_", "-"}

HexChars == CharsOf(DigitChars) \cup CharsOf("abcdefABCDEF")

StartsIdent(s) ==
    /\ s # ""
    /\ \/ IsIdentStart(Ch(s, 1))
       \/ Ch(s, 1) = "-" /\ Len(s) > 1 /\ (IsIdentStart(Ch(s, 2)) \/ Ch(s, 2) = "-")

StartsNumber(s) ==
    /\ s # ""
    /\ \/ IsDigit(Ch(s, 1))
       \/ Ch(s, 1) = "." /\ Len(s) > 1 /\ IsDigit(Ch(s, 2))
       \/ /\ Ch(s, 1) \in {"+", "-"}
          /\ Len(s) > 1
          /\ \/ IsDigit(Ch(s, 2))
             \/ Ch(s, 2) = "." /\ Len(s) > 2 /\ IsDigit(Ch(s, 3))

\* The position of the first byte c in s at or after position i, or Len(s) if none.
RECURSIVE FindFrom(_, _, _)
FindFrom(s, c, i) ==
    IF i >= Len(s) THEN Len(s)
    ELSE IF Ch(s, i) = c THEN i
    ELSE IF Ch(s, i) = "\\" THEN FindFrom(s, c, i + 2)
    ELSE FindFrom(s, c, i + 1)

PunctuationType(c) ==
    CASE c = "," -> "Comma"
      [] c = ":" -> "Colon"
      [] c = ";" -> "Semicolon"
      [] c = "(" -> "LeftParenthesis"
      [] c = ")" -> "RightParenthesis"
      [] c = "{" -> "LeftBrace"
      [] c = "}" -> "RightBrace"
      [] c = "[" -> "LeftBracket"
      [] c = "]" -> "RightBracket"
      [] OTHER -> "Delim"

\* The first token of s, s not empty.
FirstToken(s) ==
    LET c == Ch(s, 1)
    IN IF IsSpace(c) THEN Tok("Whitespace", SubSeq(s, 1, RunLen(s, SpaceChars)))
       ELSE IF c \in {"\"", "'"} THEN Tok("String", SubSeq(s, 1, FindFrom(s, c, 2)))
       ELSE IF c = "#" /\ Len(s) > 1 /\ Ch(s, 2) \in IdentChars
            THEN Tok("Hash", SubSeq(s, 1, 1 + RunLen(Drop(s, 1), IdentChars)))
       ELSE IF StartsNumber(s)
            THEN LET n == NumberLen(s)
                     after == Drop(s, n)
                 IN IF after # "" /\ Ch(after, 1) = "%" THEN Tok("Percentage", SubSeq(s, 1, n + 1))
                    ELSE IF StartsIdent(after)
                    THEN Tok("Dimension", SubSeq(s, 1, n + RunLen(after, IdentChars)))
                    ELSE Tok("Number", SubSeq(s, 1, n))
       ELSE IF StartsIdent(s)
            THEN LET n == RunLen(s, IdentChars)
                     name == SubSeq(s, 1, n)
                 IN IF Len(s) > n /\ Ch(s, n + 1) = "("
                    THEN IF ToLower(name) = "url"
                         THEN Tok("URL", SubSeq(s, 1, FindFrom(s, ")", n + 2)))
                         ELSE Tok("Function", SubSeq(s, 1, n + 1))
                    ELSE Tok("Ident", name)
       ELSE Tok(PunctuationType(c), c)

RECURSIVE Lex(_)
Lex(s) ==
    IF s = "" THEN <<>>
    ELSE LET t == FirstToken(s) IN <<t>> \o Lex(Drop(s, Len(t.data)))

\* The values of the declaration "property:bytes": white space at either end is no value.
DeclarationValues(bytes) == Lex(TrimWhitespace(bytes))

(***************************************************************************)
(* Inputs                                                                  *)
(***************************************************************************)
Comma == Tok("Comma", ",")

Space == Tok("Whitespace", " ")

RightParen == Tok("RightParenthesis", ")")

Bang == Tok("Delim", "!")

ImportantIdent == Tok("Ident", "important")

\* name(a, b, c) and name(a, b, c, d) as component tokens
Call3(name, a, b, c) == <<Tok("Function", name), a, Comma, b, Comma, c, RightParen>>

Call4(name, a, b, c, sep, d) == <<Tok("Function", name), a, Comma, b, Comma, c, sep, d, RightParen>>

Num(d) == Tok("Number", d)

Pct(d) == Tok("Percentage", d)

\* The longest list of single tokens a declaration of the model is drawn from
MaxComponents == 3

DeclTokens ==
    {Tok("Dimension", "0PX"), Num("1.0"), Tok("Ident", "none"), Tok("Hash", "#FF000000"),
     Tok("String", "\"Black\""), Space, Comma, Bang, ImportantIdent, Tok("LeftParenthesis", "(")}

FilterPattern ==
    <<Tok("Ident", "progid"), Tok("Colon", ":"), Tok("Ident", "DXImageTransform"), Tok("Delim", "."),
      Tok("Ident", "Microsoft"), Tok("Delim", "."), Tok("Function", "Alpha("), Tok("Ident", "Opacity"),
      Tok("Delim", "="), Num("50"), RightParen>>

\* The pattern with one position changed
FilterVariants ==
    {FilterPattern} \cup
    {[FilterPattern EXCEPT ![v[1]] = v[2]] :
        v \in {<<1, Tok("Ident", "Progid")>>, <<7, Tok("Function", "alpha(")>>,
               <<8, Tok("Ident", "OPACITY")>>, <<8, Tok("Ident", "Level")>>,
               <<9, Tok("Delim", "~")>>, <<10, Num("050")>>, <<11, Tok("RightBracket", "]")>>}}

DeclCalls ==
    {Call4("rgba(", Num("0"), Num("0"), Num("0"), Comma, Num("0")),
     Call4("rgba(", Num("0"), Num("0"), Num("0"), Comma, Num("1")),
     Call4("rgba(", Num("255"), Num("0"), Num("0"), Comma, Num("0.50")),
     Call3("rgb(", Num("255"), Num("255"), Num("255")),
     Call3("hsl(", Num("0"), Pct("100%"), Pct("50%")),
     <<Tok("Function", "calc("), Tok("Function", "min("), Tok("Dimension", "1px"), RightParen,
       Space, Tok("Dimension", "2px"), RightParen>>}

DeclImportant(c) == c \o <<Bang, ImportantIdent>>

DeclLists ==
    LET short == UNION {[1..n -> DeclTokens] : n \in 0..MaxComponents}
        long == FilterVariants \cup DeclCalls
    IN short \cup long \cup {DeclImportant(c) : c \in long}

\* The token lists the tokenizer can deliver: each is the tokenization of its own bytes.
DeclComponents == {c \in DeclLists : DeclarationValues(Join(Datas(c))) = c}

DeclProps == {"background", "font-family", "margin", "border", "filter", "color"}

(***************************************************************************)
(* One declaration, minified and minified again                            *)
(***************************************************************************)
NoEvent == [gt |-> "none", queued |-> FALSE, start |-> 0, data |-> "", values |-> <<>>]

LoopIdle ==
    /\ isInline = FALSE
    /\ semicolonQueued = FALSE
    /\ out = <<>>
    /\ status = "idle"
    /\ ret = "nil"
    /\ sinkErr = "nil"
    /\ failedWrites = 0
    /\ blocks = <<>>
    /\ nEvents = 0
    /\ lastEv = NoEvent

NoResult == [first |-> <<>>, second |-> <<>>]

InitDecl ==
    /\ LoopIdle
    /\ pc = "start"
    /\ inp \in [property : DeclProps, components : DeclComponents, keepCSS2 : BOOLEAN]
    /\ res = NoResult

\* c.minifyDeclaration(data, c.p.Values()), line 169
MinifyDeclaration ==
    /\ pc = "start"
    /\ res' = [res EXCEPT !.first = minifyDeclaration(inp.property, inp.components, inp.keepCSS2)]
    /\ pc' = "minified"
    /\ UNCHANGED <<inp, loopVars>>

\* The same call on the declaration read back from what the first call wrote
MinifyDeclarationAgain ==
    /\ pc = "minified"
    /\ res' = [res EXCEPT !.second =
                  minifyDeclaration(inp.property, DeclarationValues(Join(res.first.chunks)), inp.keepCSS2)]
    /\ pc' = "done"
    /\ UNCHANGED <<inp, loopVars>>

NextDecl == MinifyDeclaration \/ MinifyDeclarationAgain

SpecDecl == InitDecl /\ [][NextDecl]_vars

\* C1: minifying the output of the declaration minifier again yields the same bytes.
C1_Idempotent ==
    pc = "done" => Join(res.second.chunks) = Join(res.first.chunks)

\* The component list ends with the delimiter ! followed by the identifier important.
EndsWithImportant(c) ==
    /\ Len(c) >= 2
    /\ c[Len(c) - 1].tt = "Delim"
    /\ c[Len(c) - 1].data = "!"
    /\ c[Len(c)].tt = "Ident"
    /\ c[Len(c)].data = "important"

WithoutImportant(c) == SubSeq(c, 1, Len(c) - 2)

CountOf(chunks, b) == Cardinality({k \in 1..Len(chunks) : chunks[k] = b})

\* What the claim says of a list that ends with ! important: the two tokens are set
\* aside (the flag is set, the value list is that of the rest of the list) and the
\* chunk !important is written once, last, after what the rest of the list gives.
ImportantSetAside(r) ==
    LET rest == WithoutImportant(inp.components)
        body == DeclarationBody(ToHash(inp.property), rest, FALSE, inp.keepCSS2)
    IN /\ r.important
       /\ r.segmented = Segment(rest, 1, TRUE, <<>>).values
       /\ r.simple = body.simple
       /\ r.chunks = body.chunks \o <<"!important">>
       /\ CountOf(r.chunks, "!important") = 1

\* C9 as claimed: for every list that ends with ! important the two tokens are set
\* aside and !important is written once, last; for every other list none is appended.
C9_Original ==
    pc # "start" =>
        /\ EndsWithImportant(inp.components) => ImportantSetAside(res.first)
        /\ ~EndsWithImportant(inp.components) =>
              ~res.first.important /\ CountOf(res.first.chunks, "!important") = 0

\* C9 (amended): the same for every list of more than two components; a list that is
\* only ! important is segmented as it stands, found not simple and written
\* unchanged, which gives the bytes !important once as well.
C9_ImportantStripped ==
    pc # "start" =>
        /\ EndsWithImportant(inp.components) /\ Len(inp.components) > 2 =>
              ImportantSetAside(res.first)
        /\ EndsWithImportant(inp.components) /\ Len(inp.components) = 2 =>
              /\ ~res.first.important
              /\ ~res.first.simple
              /\ res.first.segmented = <<Value("Delim", "!", <<>>)>>
              /\ res.first.chunks = <<"!", "important">>
        /\ ~EndsWithImportant(inp.components) =>
              ~res.first.important /\ CountOf(res.first.chunks, "!important") = 0

\* C9 witness: a list of more than two components ending with ! important went
\* down the path that is not simple and !important was appended.
C9_Witness ==
    /\ pc = "minified"
    /\ EndsWithImportant(inp.components)
    /\ Len(inp.components) > 2
    /\ ~res.first.simple
    /\ res.first.chunks[Len(res.first.chunks)] = "!important"

\* The 11 components match the whole filter pattern of lines 325-334.
FilterMatches(prop, c) ==
    prop = "filter" /\ Len(c) = 11 /\ FilterPrefix(c) /\ FilterRest(c)

\* C10: on the path that is not simple, unless the whole filter pattern matches, the
\* bytes written are the bytes of the components, unchanged.
C10_Verbatim ==
    pc # "start" /\ ~res.first.simple =>
        LET c == IF res.first.important THEN WithoutImportant(inp.components) ELSE inp.components
        IN ~FilterMatches(inp.property, c) =>
              Join(res.first.chunks) = Join(Datas(inp.components))

\* The position in c of the closing parenthesis that matches the function token in
\* front of position j, function tokens and left parentheses both opening a level;
\* 0 when there is none.
RECURSIVE MatchingParen(_, _, _)
MatchingParen(c, j, depth) ==
    IF j > Len(c) THEN 0
    ELSE IF c[j].tt \in {"Function", "LeftParenthesis"} THEN MatchingParen(c, j + 1, depth + 1)
    ELSE IF c[j].tt = "RightParenthesis"
         THEN IF depth = 0 THEN j ELSE MatchingParen(c, j + 1, depth - 1)
    ELSE MatchingParen(c, j + 1, depth)

\* C11: every function token of the value list holds the tokens from the function
\* token up to and including its matching closing parenthesis, also when its
\* arguments hold function tokens; and a list that is one such call is simple, so
\* no token inside the call takes part in the decision.
C11_FunctionAbsorbed ==
    pc # "start" =>
        LET c == IF res.first.important THEN WithoutImportant(inp.components) ELSE inp.components
            seg == res.first.segmented
        IN /\ \A k \in 1..Len(seg) :
                 seg[k].tt = "Function" => MatchingParen(seg[k].comps, 2, 0) = Len(seg[k].comps)
           /\ (c # <<>> /\ c[1].tt = "Function" /\ MatchingParen(c, 2, 0) = Len(c)) =>
                 res.first.simple /\ seg = <<Value("Function", c[1].data, c)>>

(***************************************************************************)
(* One token through shortenToken                                          *)
(***************************************************************************)
HexPairs == {"00", "ff", "FF", "80", "12", "0f"}

\* The hash colours of six and of eight digits over the pairs
HashColors == {"#" \o Join(p) : p \in [1..3 -> HexPairs] \cup [1..4 -> HexPairs]}

TokenInputs ==
    {Tok("Hash", h) : h \in HashColors}
    \cup {Tok("Hash", "#FFF"), Tok("Hash", "#D2B48C"), Tok("Hash", "#ffd700ff"),
          Tok("Ident", "black"), Tok("Ident", "Black"), Tok("Ident", "none"),
          Tok("Dimension", "0.0PX"), Tok("Dimension", "1.50EM"), Tok("Percentage", "0%"),
          Num("+1000"), Num("0.00001"), Tok("String", "\"a\\\nb\""),
          Tok("URL", "URL( \"a.png\" )"), Tok("URL", "url('a b.png')"), Tok("Comma", ",")}

InitToken ==
    /\ LoopIdle
    /\ pc = "start"
    /\ inp \in {[property |-> p, tt |-> t.tt, data |-> t.data, keepCSS2 |-> k] :
                  p \in {"color", "flex", "z-index"}, t \in TokenInputs, k \in BOOLEAN}
    /\ res = NoResult

\* c.shortenToken(prop, tt, data), line 354
ShortenToken ==
    /\ pc = "start"
    /\ res' = shortenToken(inp.property, inp.tt, inp.data, inp.keepCSS2)
    /\ pc' = "done"
    /\ UNCHANGED <<inp, loopVars>>

NextToken == ShortenToken

SpecToken == InitToken /\ [][NextToken]_vars

HexValue(c) == IndexIn(HexDigits, LowerCh(c)) - 1

\* The colour a hex notation of 3, 4, 6 or 8 digits denotes, as <<R, G, B, A>>.
ColorOfHex(h) ==
    LET d == Drop(h, 1)
        short(i) == HexValue(Ch(d, i)) * 17
        long(i) == HexValue(Ch(d, 2 * i - 1)) * 16 + HexValue(Ch(d, 2 * i))
    IN IF Len(d) = 3 THEN <<short(1), short(2), short(3), 255>>
       ELSE IF Len(d) = 4 THEN <<short(1), short(2), short(3), short(4)>>
       ELSE IF Len(d) = 6 THEN <<long(1), long(2), long(3), 255>>
       ELSE <<long(1), long(2), long(3), long(4)>>

\* The colours of the CSS colour keywords the model's tables name.
ColorOfName(n) ==
    CASE n = "red" -> <<255, 0, 0, 255>>
      [] n = "navy" -> <<0, 0, 128, 255>>
      [] n = "gray" -> <<128, 128, 128, 255>>
      [] n = "tan" -> <<210, 180, 140, 255>>
      [] n = "green" -> <<0, 128, 0, 255>>
      [] n = "gold" -> <<255, 215, 0, 255>>

ColorOf(t) == IF t.tt = "Hash" THEN ColorOfHex(t.data) ELSE ColorOfName(t.data)

IsLongHash(t) == t.tt = "Hash" /\ Len(t.data) \in {7, 9}

HasAlpha00(t) == Len(t.data) = 9 /\ SubSeq(t.data, 8, 9) = "00"

\* C8 as claimed: the result of shortening a 6- or 8-digit hash colour denotes the
\* same (R,G,B,A) colour as the input and is not longer.
C8_Original ==
    pc = "done" /\ IsLongHash(inp) =>
        ColorOf(res) = ColorOf(inp) /\ Len(res.data) <= Len(inp.data)

\* C8 (amended): an 8-digit input with alpha 00 becomes the marker #0000 whatever
\* its colour digits are (alpha 0 is kept, R, G and B are not); every other 6- or
\* 8-digit input keeps its (R,G,B,A) colour.  The result is never longer, has no
\* alpha digits when the alpha is ff, is the table's name when the table has the
\* six-digit hex, and otherwise has 3 or 4 digits exactly when every pair is doubled.
C8_HashShortened ==
    pc = "done" /\ IsLongHash(inp) =>
        LET low == ToLower(inp.data)
            alphaFF == Len(low) = 9 /\ SubSeq(low, 8, 9) = "ff"
            six == SubSeq(low, 1, 7)
            doubled == \A i \in 1..((Len(low) - 1) \div 2) : Ch(low, 2 * i) = Ch(low, 2 * i + 1)
        IN /\ Len(res.data) <= Len(inp.data)
           /\ IF HasAlpha00(inp) THEN res = Tok("Hash", "#0000")
              ELSE ColorOf(res) = ColorOf(inp)
           /\ alphaFF => res.tt = "Ident" \/ Len(res.data) \in {4, 7}
           /\ ~HasAlpha00(inp) /\ (Len(low) = 7 \/ alphaFF) /\ six \in DOMAIN ShortenColorHex =>
                 res = Tok("Ident", ShortenColorHex[six])
           /\ ~HasAlpha00(inp) /\ res.tt = "Hash" => (Len(res.data) \in {4, 5} <=> doubled)

\* C8 witness: an 8-digit colour with alpha 00 and colour digits that are not all 0
\* was shortened to the marker.
C8_Witness ==
    /\ pc = "done"
    /\ IsLongHash(inp)
    /\ HasAlpha00(inp)
    /\ ColorOf(inp) # <<0, 0, 0, 0>>
    /\ res = Tok("Hash", "#0000")

(***************************************************************************)
(* One value list through the shorthand rules                              *)
(***************************************************************************)
\* The longest value list drawn
MaxValues == 4

Plain(t) == Value(t.tt, t.data, <<>>)

CalcValue(arg) == Value("Function", "calc(", <<Tok("Function", "calc("), arg, RightParen>>)

PropValues ==
    {Plain(Tok("Dimension", "0px")), Plain(Num("0")), Plain(Tok("Dimension", "1PX")),
     Plain(Tok("Dimension", "1px")), Plain(Tok("Ident", "none")),
     CalcValue(Tok("Dimension", "1px")), CalcValue(Tok("Dimension", "2px"))}

PropProps == {"margin", "padding", "border-width", "border", "outline", "box-shadow", "font-weight"}

InitProp ==
    /\ LoopIdle
    /\ pc = "start"
    /\ inp \in {[property |-> p, values |-> v, keepCSS2 |-> FALSE] :
                  p \in PropProps, v \in UNION {[1..n -> PropValues] : n \in 1..MaxValues}}
    /\ res = NoResult

\* Lines 353-355: every value through shortenToken
ShortenAll ==
    /\ pc = "start"
    /\ res' = [shortened |-> ShortenValues(inp.property, inp.values, inp.keepCSS2), final |-> <<>>]
    /\ pc' = "shortened"
    /\ UNCHANGED <<inp, loopVars>>

\* Lines 356-358: values = c.minifyProperty(prop, values)
ApplyProperty ==
    /\ pc = "shortened"
    /\ res' = [res EXCEPT !.final = minifyProperty(inp.property, res.shortened)]
    /\ pc' = "done"
    /\ UNCHANGED <<inp, loopVars>>

NextProp == ShortenAll \/ ApplyProperty

SpecProp == InitProp /\ [][NextProp]_vars

\* The four values (top, right, bottom, left) a box shorthand of 1 to 4 entries stands for.
Expand(v) ==
    CASE Len(v) = 1 -> <<v[1], v[1], v[1], v[1]>>
      [] Len(v) = 2 -> <<v[1], v[2], v[1], v[2]>>
      [] Len(v) = 3 -> <<v[1], v[2], v[3], v[2]>>
      [] Len(v) = 4 -> v

QuadProps == {"margin", "padding", "border-width"}

\* C5: for margin, padding and border-width the rule returns a prefix of the list that
\* expands to the same four values, and no shorter prefix does.
C5_ShortestPrefix ==
    pc = "done" /\ inp.property \in QuadProps /\ Len(res.shortened) \in 1..4 =>
        LET v == res.shortened
            n == Len(res.final)
        IN /\ n \in 1..Len(v)
           /\ res.final = SubSeq(v, 1, n)
           /\ Expand(res.final) = Expand(v)
           /\ \A k \in 1..(n - 1) : Expand(SubSeq(v, 1, k)) # Expand(v)

\* C5 witness: four values of which only the second and the fourth agree gave three.
C5_Witness ==
    /\ pc = "done"
    /\ inp.property = "margin"
    /\ Len(res.shortened) = 4
    /\ res.shortened[1] # res.shortened[3]
    /\ res.shortened[2] = res.shortened[4]
    /\ Len(res.final) = 3

BorderProps == {"outline", "border", "border-bottom", "border-left", "border-right", "border-top"}

IsNone(v) == v.data = "none"

Positions(v, P(_)) == {k \in 1..Len(v) : P(v[k])}

NoneToZero(v) == [k \in 1..Len(v) |-> IF IsNone(v[k]) THEN Value("Number", "0", v[k].comps) ELSE v[k]]

Least(S) == CHOOSE x \in S : \A y \in S : x <= y

Greatest(S) == CHOOSE x \in S : \A y \in S : x >= y

\* C6 as claimed: a list with none and literal zeros, or with several none, comes out
\* with exactly one literal zero, the first pre-existing zero being the one dropped.
C6_Original ==
    pc = "done" /\ inp.property \in BorderProps =>
        LET v == res.shortened
            nones == Positions(v, IsNone)
            zeros == Positions(v, IsZero)
        IN nones # {} /\ Cardinality(nones) + Cardinality(zeros) >= 2 =>
              /\ Cardinality(Positions(res.final, IsZero)) = 1
              /\ zeros # {} => res.final = RemoveAt(NoneToZero(v), Least(zeros) - 1)

\* C6 (amended): every none becomes a literal 0 and, when the list held a none and
\* a literal zero, exactly one token is dropped: the last pre-existing literal zero.
\* So one none with one literal 0 gives exactly one zero token; several none, or
\* several zeros beside a none, leave more than one.
C6_DropsLastZero ==
    pc = "done" /\ inp.property \in BorderProps =>
        LET v == res.shortened
            nones == Positions(v, IsNone)
            zeros == Positions(v, IsZero)
            left == Cardinality(Positions(res.final, IsZero))
        IN /\ res.final = IF nones # {} /\ zeros # {}
                          THEN RemoveAt(NoneToZero(v), Greatest(zeros) - 1)
                          ELSE NoneToZero(v)
           /\ nones # {} /\ zeros # {} => left = Cardinality(nones) + Cardinality(zeros) - 1
           /\ nones # {} /\ zeros = {} => left = Cardinality(nones)
           /\ Cardinality(nones) = 1 /\ Cardinality(zeros) = 1 => left = 1

\* C6 witness: a border list with one none and one literal 0 lost its zero token.
C6_Witness ==
    /\ pc = "done"
    /\ inp.property = "border"
    /\ Cardinality(Positions(res.shortened, IsNone)) = 1
    /\ Cardinality(Positions(res.shortened, IsZero)) = 1
    /\ Len(res.final) = Len(res.shortened) - 1
    /\ Cardinality(Positions(res.final, IsZero)) = 1

(***************************************************************************)
(* One colour call through minifyFunction                                  *)
(***************************************************************************)
FuncNames == {"rgb(", "rgba(", "hsl(", "hsla("}

FuncChannels == {Num("0"), Num("255"), Num("128"), Pct("100%")}

FuncAlphas ==
    {Num("0"), Num("0.00001"), Num("0.001"), Num("0.5"), Num("1"), Num("1.0"), Num("2"), Num("-1"),
     Pct("0%"), Pct("50%"), Pct("100%")}

FuncSeparators == {Comma, Space, Tok("Delim", "/")}

InitFunc ==
    /\ LoopIdle
    /\ pc = "start"
    /\ inp \in {[name |-> f, channels |-> c, sep |-> sp, alpha |-> a, keepCSS2 |-> k] :
                  f \in FuncNames, c \in [1..3 -> FuncChannels], sp \in FuncSeparators,
                  a \in FuncAlphas, k \in BOOLEAN}
    /\ res = NoResult

\* c.minifyFunction on the call with its alpha argument
MinifyFunctionFour ==
    /\ pc = "start"
    /\ res' = [four |-> minifyFunction(Call4(inp.name, inp.channels[1], inp.channels[2], inp.channels[3],
                                             inp.sep, inp.alpha), inp.keepCSS2),
               three |-> <<>>]
    /\ pc' = "four"
    /\ UNCHANGED <<inp, loopVars>>

\* c.minifyFunction on the same call with three arguments
MinifyFunctionThree ==
    /\ pc = "four"
    /\ res' = [res EXCEPT !.three = minifyFunction(Call3(inp.name, inp.channels[1], inp.channels[2],
                                                        inp.channels[3]), inp.keepCSS2)]
    /\ pc' = "done"
    /\ UNCHANGED <<inp, loopVars>>

NextFunc == MinifyFunctionFour \/ MinifyFunctionThree

SpecFunc == InitFunc /\ [][NextFunc]_vars

\* The alpha the argument denotes, in millionths: a number as written, a percentage
\* as its hundredth.
AlphaValue(t) ==
    IF t.tt = "Percentage" THEN DecimalValue(SubSeq(t.data, 1, Len(t.data) - 1)) \div 100
    ELSE DecimalValue(t.data)

IsColorLiteral(chunks) ==
    /\ Len(chunks) = 1
    /\ \/ \E h \in DOMAIN ShortenColorHex : chunks[1] = ShortenColorHex[h]
       \/ /\ Len(chunks[1]) \in {4, 5, 7, 9}
          /\ Ch(chunks[1], 1) = "#"
          /\ \A k \in 2..Len(chunks[1]) : Ch(chunks[1], k) \in CharsOf(HexDigits)

\* The chunks are a call from its name through its closing parenthesis.
IsWholeCall(chunks) ==
    /\ Len(chunks) > 1
    /\ chunks[1] \in FuncNames
    /\ chunks[Len(chunks)] = ")"

\* C13: whatever the function and the legacy toggle, what is written for a call is
\* one colour literal or the call from its name through its closing parenthesis,
\* never nothing and never a call without its closing parenthesis.
C13_CompleteOutput ==
    /\ pc # "start" => IsColorLiteral(res.four) \/ IsWholeCall(res.four)
    /\ pc = "done" => IsColorLiteral(res.three) \/ IsWholeCall(res.three)

(***************************************************************************)
(* minifySelectors                                                         *)
(***************************************************************************)
RECURSIVE SelectorChunks(_, _, _, _)
\* Lines 204-235: the bytes written for the selector tokens from position i on.
SelectorChunks(values, i, inAttr, isClass) ==
    IF i > Len(values) THEN <<>>
    ELSE LET val == values[i]
             s == SubSeq(val.data, 2, Len(val.data) - 1)
         IN IF ~inAttr
            THEN IF val.tt = "Ident"
                 THEN <<IF isClass THEN val.data ELSE ToLower(val.data)>>
                          \o SelectorChunks(values, i + 1, inAttr, FALSE)
                 ELSE IF val.tt = "Delim" /\ Ch(val.data, 1) = "."
                 THEN <<val.data>> \o SelectorChunks(values, i + 1, inAttr, TRUE)
                 ELSE IF val.tt = "LeftBracket"
                 THEN <<val.data>> \o SelectorChunks(values, i + 1, TRUE, isClass)
                 ELSE <<val.data>> \o SelectorChunks(values, i + 1, inAttr, isClass)
            ELSE IF val.tt = "String" /\ Len(val.data) > 2
                 THEN <<IF IsIdent(s) THEN s ELSE val.data>> \o SelectorChunks(values, i + 1, inAttr, isClass)
                 ELSE IF val.tt = "RightBracket"
                 THEN <<val.data>> \o SelectorChunks(values, i + 1, FALSE, isClass)
                 ELSE <<val.data>> \o SelectorChunks(values, i + 1, inAttr, isClass)

minifySelectors(values) == SelectorChunks(values, 1, FALSE, FALSE)

(***************************************************************************)
(* One selector through minifySelectors                                    *)
(***************************************************************************)
\* The longest selector token stream
MaxSelector == 4

SelectorTokens ==
    {Tok("Ident", "A"), Tok("Ident", "b"), Tok("Delim", "."), Tok("Delim", ">"), Space,
     Tok("Colon", ":"), Tok("LeftBracket", "["), Tok("RightBracket", "]"), Tok("String", "\"d\"")}

\* The token streams the tokenizer can deliver: each is the tokenization of its own bytes.
SelectorStreams ==
    {v \in UNION {[1..n -> SelectorTokens] : n \in 1..MaxSelector} : Lex(Join(Datas(v))) = v}

InitSel ==
    /\ LoopIdle
    /\ pc = "start"
    /\ inp \in [values : SelectorStreams]
    /\ res = NoResult

\* c.minifySelectors(data, c.p.Values()), lines 149 and 156
MinifySelectors ==
    /\ pc = "start"
    /\ res' = [chunks |-> minifySelectors(inp.values)]
    /\ pc' = "done"
    /\ UNCHANGED <<inp, loopVars>>

SpecSel == InitSel /\ [][MinifySelectors]_vars

\* The token at position i lies inside an attribute selector: the last bracket in
\* front of it is a left bracket.
InAttribute(v, i) ==
    \E j \in 1..(i - 1) :
        /\ v[j].tt = "LeftBracket"
        /\ \A k \in (j + 1)..(i - 1) : v[k].tt \notin {"LeftBracket", "RightBracket"}

IsDot(t) == t.tt = "Delim" /\ t.data = "."

\* C12: an identifier outside an attribute selector is written as it stands if and
\* only if the token right before it is the delimiter "."; every other such
\* identifier is written in lower case.
C12_ClassFlag ==
    pc = "done" =>
        \A i \in 1..Len(inp.values) :
            inp.values[i].tt = "Ident" /\ ~InAttribute(inp.values, i) =>
                IF i > 1 /\ IsDot(inp.values[i - 1])
                THEN res.chunks[i] = inp.values[i].data
                ELSE res.chunks[i] = ToLower(inp.values[i].data)

(***************************************************************************)
(* minifyGrammar: what the loop writes for one grammar event, and the      *)
(* pending-separator flag it leaves.  A chunk [k, b] is one call of        *)
(* c.w.Write: k tells the terminator and the block close the loop writes   *)
(* itself from the bytes it passes on.                                     *)
(***************************************************************************)
Chunk(k, b) == [k |-> k, b |-> b]

semicolonBytes == Chunk("semicolon", ";")

rightBracketBytes == Chunk("close", "}")

leftBracketBytes == Chunk("data", "{")

commaBytes == Chunk("data", ",")

colonBytes == Chunk("data", ":")

DataChunks(bs) == [k \in 1..Len(bs) |-> Chunk("data", bs[k])]

Handled(chunks, queued) == [chunks |-> chunks, queued |-> queued]

\* Lines 107-112
Flush(queued) == IF queued THEN <<semicolonBytes>> ELSE <<>>

\* Lines 75-79: the pending semicolon is written, the flag is left as it is.
\* Lines 82-96: the declaration's bytes, then the recovered values but a last semicolon.
RecoverDeclaration(queued, data, vals) ==
    LET last == Len(vals) > 0 /\ vals[Len(vals)].tt = "Semicolon"
        kept == IF last THEN SubSeq(vals, 1, Len(vals) - 1) ELSE vals
    IN Handled(Flush(queued) \o <<Chunk("data", data)>> \o DataChunks(Datas(kept)),
               IF last THEN TRUE ELSE queued)

\* The block close writing the pending semicolon first
BlockEndFlushing(queued) == Handled(Flush(queued) \o <<rightBracketBytes>>, FALSE)

\* Lines 99-105
BlockEnd(queued) == Handled(<<rightBracketBytes>>, FALSE)

\* Lines 119-128: url(a) becomes "a", url("a") becomes "a"
ImportURL(url) ==
    IF Ch(url, 5) # "\"" /\ Ch(url, 5) # "'"
    THEN "\"" \o SubSeq(url, 5, Len(url) - 1) \o "\""
    ELSE SubSeq(url, 5, Len(url) - 1)

\* Lines 114-135
AtRule(queued, data, values) ==
    LET rewritten == IF ToHash(Drop(data, 1)) = "import" /\ Len(values) = 2 /\ values[2].tt = "URL"
                     THEN [values EXCEPT ![2].data = ImportURL(values[2].data)]
                     ELSE values
    IN Handled(Flush(queued) \o <<Chunk("data", data)>> \o DataChunks(Datas(rewritten)), TRUE)

\* Lines 136-147
BeginAtRule(queued, data, values) ==
    Handled(Flush(queued) \o <<Chunk("data", data)>> \o DataChunks(Datas(values)) \o <<leftBracketBytes>>,
            FALSE)

\* Lines 148-154
QualifiedRule(queued, values) ==
    Handled(Flush(queued) \o DataChunks(minifySelectors(values)) \o <<commaBytes>>, FALSE)

\* Lines 155-161
BeginRuleset(queued, values) ==
    Handled(Flush(queued) \o DataChunks(minifySelectors(values)) \o <<leftBracketBytes>>, FALSE)

\* Lines 162-172
Declaration(queued, data, values, keepCSS2) ==
    Handled(Flush(queued) \o <<Chunk("data", data), colonBytes>>
                \o DataChunks(minifyDeclaration(data, values, keepCSS2).chunks), TRUE)

\* Lines 173-183
CustomProperty(queued, data, values) ==
    Handled(Flush(queued) \o <<Chunk("data", data), colonBytes, Chunk("data", values[1].data)>>, TRUE)

RECURSIVE ReplaceMultipleWhitespace(_)
\* parse.ReplaceMultipleWhitespace: a run of whitespace becomes one space, or one
\* newline when the run holds a line break.
ReplaceMultipleWhitespace(s) ==
    IF s = "" THEN ""
    ELSE IF IsSpace(Ch(s, 1))
    THEN LET n == RunLen(s, SpaceChars)
             run == SubSeq(s, 1, n)
         IN (IF \E k \in 1..n : Ch(run, k) \in {"\n", "\r"} THEN "\n" ELSE " ")
                \o ReplaceMultipleWhitespace(Drop(s, n))
    ELSE Ch(s, 1) \o ReplaceMultipleWhitespace(Drop(s, 1))

\* Lines 185: the comment is kept
IsImportantComment(data) == Len(data) > 5 /\ Ch(data, 2) = "*" /\ Ch(data, 3) = "!"

\* Lines 184-196
Comment(queued, data) ==
    Handled(Flush(queued) \o
                (IF IsImportantComment(data)
                 THEN DataChunks(<<SubSeq(data, 1, 3),
                                   TrimWhitespace(ReplaceMultipleWhitespace(SubSeq(data, 4, Len(data) - 2))),
                                   SubSeq(data, Len(data) - 1, Len(data))>>)
                 ELSE <<>>),
            FALSE)

\* Lines 197-199: any other grammar, its bytes as they are
OtherGrammar(queued, data) == Handled(Flush(queued) \o <<Chunk("data", data)>>, FALSE)

\* Lines 63-66: what Minify returns for what minifyGrammar returned
MinifyReturn(err) == IF err # "nil" /\ err # "io.EOF" THEN err ELSE "nil"

(***************************************************************************)
(* The grammar events of one pass and the sink                             *)
(***************************************************************************)
\* The most grammar events of one pass
MaxEvents == 4

\* The most blocks open at a time
MaxBlocks == 2

\* The errors a refused write returns
SinkErrors == {"io.ErrShortWrite", "io.EOF"}

ParseError == "parse error"

Event(gt, data, values) ==
    [gt |-> gt, queued |-> semicolonQueued, start |-> Len(out), data |-> data, values |-> values]

Written(chunks, gt) ==
    [k \in 1..Len(chunks) |-> [k |-> chunks[k].k, b |-> chunks[k].b, ev |-> nEvents + 1, gt |-> gt]]

\* One grammar event handled: its writes in order, each of which the sink may
\* refuse, and then nothing more is written and Minify returns.
Deliver(ev, h, open) ==
    /\ status = "running"
    /\ nEvents < MaxEvents
    /\ nEvents' = nEvents + 1
    /\ lastEv' = ev
    /\ \E f \in 0..Len(h.chunks) :
          IF f = 0
          THEN /\ out' = out \o Written(h.chunks, ev.gt)
               /\ semicolonQueued' = h.queued
               /\ blocks' = open
               /\ UNCHANGED <<status, ret, sinkErr, failedWrites>>
          ELSE \E e \in SinkErrors :
               /\ out' = out \o Written(SubSeq(h.chunks, 1, f - 1), ev.gt)
               /\ sinkErr' = e
               /\ failedWrites' = failedWrites + 1
               /\ status' = "returned"
               /\ ret' = MinifyReturn(e)
               /\ UNCHANGED <<semicolonQueued, blocks>>
    /\ UNCHANGED <<isInline, callVars>>

\* The parser's error, and with it the return of minifyGrammar (line 97)
Return(ev, err) ==
    /\ status = "running"
    /\ nEvents < MaxEvents
    /\ nEvents' = nEvents + 1
    /\ lastEv' = ev
    /\ status' = "returned"
    /\ ret' = MinifyReturn(err)
    /\ UNCHANGED <<isInline, semicolonQueued, out, sinkErr, failedWrites, blocks, callVars>>

InBlock == isInline \/ blocks # <<>>

AfterSelector == lastEv.gt = "QualifiedRule"

CanOpen == ~isInline /\ Len(blocks) < MaxBlocks

Semicolon == Tok("Semicolon", ";")

RecoveredValues == {<<Tok("Ident", "e")>>, <<Tok("Ident", "e"), Semicolon>>}

AtRuleValues == {<<Space, Tok("URL", "url(a)")>>, <<Space, Tok("URL", "url(\"a\")")>>}

SelectorValues ==
    {<<Tok("Ident", "A")>>,
     <<Tok("Delim", "."), Tok("Ident", "B"), Tok("LeftBracket", "["), Tok("Ident", "C"),
       Tok("Delim", "="), Tok("String", "\"d\""), Tok("RightBracket", "]")>>}

CommentData == {"/*c*/", "/*!  keep  */"}

Init ==
    /\ isInline \in BOOLEAN
    /\ semicolonQueued = FALSE
    /\ out = <<>>
    /\ status = "running"
    /\ ret = "nil"
    /\ sinkErr = "nil"
    /\ failedWrites = 0
    /\ blocks = <<>>
    /\ nEvents = 0
    /\ lastEv = NoEvent
    /\ pc = "loop"
    /\ inp = <<>>
    /\ res = NoResult

\* ErrorGrammar, "unexpected token in declaration"
OnRecoverableError ==
    /\ InBlock /\ ~AfterSelector
    /\ \E vals \in RecoveredValues :
          Deliver(Event("Error", "d", vals), RecoverDeclaration(semicolonQueued, "d", vals), blocks)

\* ErrorGrammar, any other parse error
OnFatalError == Return(Event("FatalError", "", <<>>), ParseError)

\* ErrorGrammar at the end of the input: c.p.Err() is io.EOF
OnEndOfInput == Return(Event("EOF", "", <<>>), "io.EOF")

\* EndAtRuleGrammar, EndRulesetGrammar
OnBlockEnd ==
    /\ blocks # <<>> /\ ~AfterSelector
    /\ Deliver(Event(blocks[Len(blocks)], "}", <<>>), BlockEnd(semicolonQueued),
               SubSeq(blocks, 1, Len(blocks) - 1))

OnAtRule ==
    /\ ~isInline /\ ~AfterSelector
    /\ \E values \in AtRuleValues :
          Deliver(Event("AtRule", "@import", values), AtRule(semicolonQueued, "@import", values), blocks)

OnBeginAtRule ==
    /\ CanOpen /\ ~AfterSelector
    /\ LET values == <<Space, Tok("Ident", "screen")>>
       IN Deliver(Event("BeginAtRule", "@media", values), BeginAtRule(semicolonQueued, "@media", values),
                  Append(blocks, "EndAtRule"))

OnQualifiedRule ==
    /\ CanOpen
    /\ LET values == <<Tok("Ident", "A")>>
       IN Deliver(Event("QualifiedRule", "", values), QualifiedRule(semicolonQueued, values), blocks)

OnBeginRuleset ==
    /\ CanOpen
    /\ \E values \in SelectorValues :
          Deliver(Event("BeginRuleset", "", values), BeginRuleset(semicolonQueued, values),
                  Append(blocks, "EndRuleset"))

OnDeclaration ==
    /\ InBlock /\ ~AfterSelector
    /\ LET values == <<Tok("Ident", "RED")>>
       IN Deliver(Event("Declaration", "color", values),
                  Declaration(semicolonQueued, "color", values, FALSE), blocks)

OnCustomProperty ==
    /\ InBlock /\ ~AfterSelector
    /\ LET values == <<Tok("CustomPropertyValue", " 1")>>
       IN Deliver(Event("CustomProperty", "--x", values),
                  CustomProperty(semicolonQueued, "--x", values), blocks)

OnComment ==
    /\ ~AfterSelector
    /\ \E data \in CommentData :
          Deliver(Event("Comment", data, <<>>), Comment(semicolonQueued, data), blocks)

\* TokenGrammar: a token that opens no rule, such as <!--
OnToken ==
    /\ ~isInline /\ ~AfterSelector
    /\ Deliver(Event("Token", "<!--", <<>>), OtherGrammar(semicolonQueued, "<!--"), blocks)

Next ==
    \/ OnRecoverableError
    \/ OnFatalError
    \/ OnEndOfInput
    \/ OnBlockEnd
    \/ OnAtRule
    \/ OnBeginAtRule
    \/ OnQualifiedRule
    \/ OnBeginRuleset
    \/ OnDeclaration
    \/ OnCustomProperty
    \/ OnComment
    \/ OnToken

Spec == Init /\ [][Next]_vars

\* The chunks the event numbered n wrote
WrittenBy(n) == {i \in 1..Len(out) : out[i].ev = n}

\* The chunk at position i is a pending semicolon the loop wrote
IsPending(i) == out[i].k = "semicolon"

\* C2 as claimed: no semicolon the loop writes is directly followed by a block close
\* the loop writes, whatever event lay between the statement and the close, and the
\* end of the input writes nothing.
C2_Original ==
    /\ \A i \in 1..(Len(out) - 1) : ~(IsPending(i) /\ out[i + 1].k = "close")
    /\ lastEv.gt = "EOF" => WrittenBy(nEvents) = {}

\* C2 (amended): a block close and the end of the input never write the pending
\* semicolon; every other event writes it first, and directly before its own
\* output, unless the event is a comment that is dropped (then the semicolon is all
\* it writes, and the next event may write the block close directly behind it) or
\* the sink refused the write that follows. A semicolon directly followed by a
\* block close is therefore always one a dropped comment wrote.
C2_PendingSemicolon ==
    /\ \A i \in 1..Len(out) :
          IsPending(i) =>
              /\ out[i].gt \notin {"EndAtRule", "EndRuleset", "EOF", "FatalError"}
              /\ \/ i < Len(out) /\ out[i + 1].ev = out[i].ev /\ out[i + 1].k = "data"
                 \/ out[i].gt = "Comment" /\ WrittenBy(out[i].ev) = {i}
                 \/ i = Len(out) /\ sinkErr # "nil"
    /\ \A i \in 1..(Len(out) - 1) :
          IsPending(i) /\ out[i + 1].k = "close" => out[i].gt = "Comment"
    /\ lastEv.gt \in {"EOF", "FatalError"} => WrittenBy(nEvents) = {}
    /\ lastEv.gt \in {"EndAtRule", "EndRuleset"} /\ status = "running" =>
          /\ ~semicolonQueued
          /\ WrittenBy(nEvents) = {Len(out)}
          /\ out[Len(out)].k = "close"

\* C2 witness: a declaration, a dropped comment and the block close: the comment
\* wrote the pending semicolon and the close came directly behind it.
C2_Witness ==
    /\ lastEv.gt = "EndRuleset"
    /\ Len(out) > 2
    /\ out[Len(out)].k = "close"
    /\ IsPending(Len(out) - 1)
    /\ out[Len(out) - 1].gt = "Comment"
    /\ out[Len(out) - 2].gt = "Declaration"

EndsWithSemicolon(vals) == Len(vals) > 0 /\ vals[Len(vals)].tt = "Semicolon"

BytesOf(chunks) == Join([k \in 1..Len(chunks) |-> chunks[k].b])

\* C3: after a recoverable error event the output holds the pending semicolon if one
\* was pending, the declaration's bytes and the recovered values but a last
\* semicolon, and the flag is set exactly when the last recovered value was a
\* semicolon, whatever it was before.
C3_RecoveredFlag ==
    lastEv.gt = "Error" /\ status = "running" =>
        /\ BytesOf(SubSeq(out, lastEv.start + 1, Len(out))) =
              (IF lastEv.queued THEN ";" ELSE "") \o lastEv.data \o
              Join(Datas(IF EndsWithSemicolon(lastEv.values)
                         THEN SubSeq(lastEv.values, 1, Len(lastEv.values) - 1)
                         ELSE lastEv.values))
        /\ lastEv.queued => IsPending(lastEv.start + 1)
        /\ semicolonQueued = EndsWithSemicolon(lastEv.values)

\* C4: once a write is refused nothing more is written and Minify returns the error
\* the sink gave, whatever it is; Minify returns nil only at the end of the input
\* with no write refused.
C4_WriteFailure ==
    /\ sinkErr # "nil" => status = "returned" /\ failedWrites = 1 /\ ret = sinkErr
    /\ status = "returned" /\ ret = "nil" => lastEv.gt = "EOF" /\ sinkErr = "nil"

====
